---- MODULE Spec2Model ----
(***************************************************************************)
(* Schema normalization for the Gemini schema format.                      *)
(*                                                                         *)
(* A schema node is a Python dict: here a function from its keys to their  *)
(* values.  The value of "type" is Str(t) for the string t and Lst(s) for  *)
(* the list s; the value of "anyOf"/"any_of" is a sequence of nodes, of    *)
(* "properties" a function from field names to nodes, of "items" a node.   *)
(* Scalar annotations are strings or numbers, None is the value NoneV.     *)
(*                                                                         *)
(* The "Fixed Approach" of test_fix_proposal.py is the pipeline            *)
(*   _sanitize_schema_formats_for_gemini_fixed, then                       *)
(*   Schema.from_json_schema.                                              *)
(***************************************************************************)
EXTENDS Integers, Sequences, FiniteSets, TLC

VARIABLES schema, pc, sanitized, result,   \* the run of the script
          heap, stack, outcome,           \* one call, over dict objects
          rag_corpus, vertex_raises,      \* the tool-runner sample
          rag_tool, agents, sessions, main_pc,
          query_index, yielded, response_parts, printed,
          runs, events                    \* the calls and the stream

scriptVars == <<schema, pc, sanitized, result>>

callVars == <<heap, stack, outcome>>

sampleVars ==
  <<rag_corpus, vertex_raises, rag_tool, agents, sessions, main_pc,
    query_index, yielded, response_parts, printed, runs, events>>

vars ==
  <<schema, pc, sanitized, result, heap, stack, outcome,
    rag_corpus, vertex_raises, rag_tool, agents, sessions, main_pc,
    query_index, yielded, response_parts, printed, runs, events>>

----------------------------------------------------------------------------
(* Values *)

EmptyNode == [k \in {} |-> 0]

NoneV == "None"

Str(t) == [list |-> FALSE, tags |-> <<t>>]

Lst(s) == [list |-> TRUE, tags |-> s]

\* A value of "type" that is neither a string nor a list, as the number 5:
\* it is carried by its repr and equals no string.
NotAString(repr) == [list |-> FALSE, tags |-> <<repr>>, str |-> FALSE]

Put(d, k, v) == [x \in DOMAIN d \cup {k} |-> IF x = k THEN v ELSE d[x]]

Remove(d, ks) == [x \in DOMAIN d \ ks |-> d[x]]

Has(d, k) == k \in DOMAIN d

\* The keys whose values are strings in the inputs, and so may be None or "".
StringValued == {"description", "title", "format"}

IsNone(k, v) == k \in StringValued /\ v = NoneV

\* Python truthiness of a field value: None and "" are falsy.
Truthy(k, v) == ~(k \in StringValued /\ (v = NoneV \/ v = ""))

\* Python truthiness of the value of "type": "" and [] are falsy.
TruthyType(tv) == IF tv.list THEN Len(tv.tags) > 0 ELSE tv.tags[1] # ""

----------------------------------------------------------------------------
(* google.adk.tools._gemini_schema_util helpers the sanitizer imports *)

\* The order in which the fields of a dict are visited.
FieldOrder ==
  << "type", "anyOf", "any_of", "properties", "items", "description", "title",
     "minimum", "format", "minItems", "min_items", "additionalProperties",
     "examples", "nullable" >>

_to_snake_case(name) ==
  CASE name = "anyOf" -> "any_of"
    [] name = "minItems" -> "min_items"
    [] name = "additionalProperties" -> "additional_properties"
    [] OTHER -> name

\* _ExtendedJSONSchema.model_fields.keys()
ModelFields ==
  { "type", "format", "title", "description", "default", "items", "min_items",
    "max_items", "enum", "properties", "required", "min_properties",
    "max_properties", "minimum", "maximum", "min_length", "max_length",
    "pattern", "any_of", "additional_properties", "property_ordering" }

----------------------------------------------------------------------------
(* test_fix_proposal.py *)

\* schema.keys().isdisjoint(schema): a dict's keys are disjoint from
\* themselves only when there are none.
KeysDisjointFromSelf(node) == (DOMAIN node \cap DOMAIN node) = {}

\* without the in_any_of guard: the sanitizer before the fix
NoInAnyOfGuard_sanitize_schema_type_fixed(node, in_any_of) ==
  LET defaulted == IF (~Has(node, "type") \/ ~TruthyType(node["type"]))
                      /\ KeysDisjointFromSelf(node)
                   THEN Put(node, "type", Str("object")) ELSE node
  IN  IF ~Has(defaulted, "type") THEN defaulted
      ELSE LET tv == defaulted["type"]
               nonNull == SelectSeq(tv.tags, LAMBDA t : t # "null" /\ t # "")
               nullable == \E i \in 1..Len(tv.tags) : tv.tags[i] = "null"
               non_null_type == IF nonNull = <<>> THEN "object" ELSE nonNull[1]
           IN  IF tv.list
               THEN Put(defaulted, "type",
                        IF nullable THEN Lst(<<non_null_type, "null">>)
                        ELSE Str(non_null_type))
               ELSE IF tv.tags[1] = "null"
                    THEN Put(defaulted, "type", Lst(<<"object", "null">>))
                    ELSE defaulted

\* a list type always flattened to its first non-null tag
DropNullable_sanitize_schema_type_fixed(node, in_any_of) ==
  LET defaulted == IF (~Has(node, "type") \/ ~TruthyType(node["type"]))
                      /\ KeysDisjointFromSelf(node)
                   THEN Put(node, "type", Str("object")) ELSE node
  IN  IF ~Has(defaulted, "type") THEN defaulted
      ELSE LET tv == defaulted["type"]
               nonNull == SelectSeq(tv.tags, LAMBDA t : t # "null" /\ t # "")
               non_null_type == IF nonNull = <<>> THEN "object" ELSE nonNull[1]
           IN  IF tv.list
               THEN Put(defaulted, "type", Str(non_null_type))
               ELSE IF tv.tags[1] = "null" /\ ~in_any_of
                    THEN Put(defaulted, "type", Lst(<<"object", "null">>))
                    ELSE defaulted

_sanitize_schema_type_fixed(node, in_any_of) ==
  LET defaulted == IF (~Has(node, "type") \/ ~TruthyType(node["type"]))
                      /\ KeysDisjointFromSelf(node)
                   THEN Put(node, "type", Str("object")) ELSE node
  IN  IF ~Has(defaulted, "type") THEN defaulted
      ELSE LET tv == defaulted["type"]
               \* "elif not non_null_type": the first truthy non-null tag
               nonNull == SelectSeq(tv.tags, LAMBDA t : t # "null" /\ t # "")
               nullable == \E i \in 1..Len(tv.tags) : tv.tags[i] = "null"
               non_null_type == IF nonNull = <<>> THEN "object" ELSE nonNull[1]
           IN  IF tv.list
               THEN Put(defaulted, "type",
                        IF nullable THEN Lst(<<non_null_type, "null">>)
                        ELSE Str(non_null_type))
               ELSE IF tv.tags[1] = "null" /\ ~in_any_of
                    THEN Put(defaulted, "type", Lst(<<"object", "null">>))
                    ELSE defaulted

\* supported_fields, with "additional_properties" discarded
supported_fields == ModelFields \ {"additional_properties"}

schema_field_names == {"items"}

list_schema_field_names == {"any_of"}

dict_schema_field_names == {"properties", "defs"}

\* the format test without the type of the node
AnyTypeFormatSupported(node, field_value) ==
  field_value \in {"int32", "int64", "date-time", "enum"}

\* The format test: current_type is schema.get("type") of the input node.
FormatSupported(node, field_value) ==
  /\ Has(node, "type")
  /\ ~node["type"].list
  /\ LET current_type == node["type"].tags[1]
     IN  \/ current_type \in {"integer", "number"}
            /\ field_value \in {"int32", "int64"}
         \/ current_type = "string" /\ field_value \in {"date-time", "enum"}

\* The context handed to the elements of an any_of list: in_any_of=True.
SameContextAnyOfContext(in_any_of) == in_any_of

AnyOfContext(in_any_of) == TRUE

\* The context handed to items and to the values of properties.
OutsideAnyOfChildContext(in_any_of) == FALSE

ChildContext(in_any_of) == in_any_of

RECURSIVE _sanitize_schema_formats_for_gemini_fixed(_, _)

\* field_name_snake in schema_field_names: the items node
SanitizeItems(field_value, in_any_of) ==
  _sanitize_schema_formats_for_gemini_fixed(field_value,
                                            ChildContext(in_any_of))

\* field_name_snake in list_schema_field_names: each element of any_of
UnsanitizedAnyOf(field_value, in_any_of) == field_value

SanitizeAnyOf(field_value, in_any_of) ==
  [i \in 1..Len(field_value) |->
     _sanitize_schema_formats_for_gemini_fixed(field_value[i],
                                               AnyOfContext(in_any_of))]

\* field_name_snake in dict_schema_field_names: each value of properties
UnsanitizedProperties(field_value, in_any_of) == field_value

\* the names of the properties put in snake case like the keywords
SnakeCasedKeysSanitizeProperties(field_value, in_any_of) ==
  [key_snake \in {_to_snake_case(key) : key \in DOMAIN field_value} |->
     _sanitize_schema_formats_for_gemini_fixed(
       field_value[CHOOSE key \in DOMAIN field_value :
                     _to_snake_case(key) = key_snake],
       ChildContext(in_any_of))]

SanitizeProperties(field_value, in_any_of) ==
  [key \in DOMAIN field_value |->
     _sanitize_schema_formats_for_gemini_fixed(field_value[key],
                                               ChildContext(in_any_of))]

\* The last branch: field_name_snake in supported_fields and
\* field_value is not None
KeepAnyField(field_name_snake, field_name, field_value) ==
  ~IsNone(field_name, field_value)

KeepTruthyField(field_name_snake, field_name, field_value) ==
  /\ field_name_snake \in supported_fields
  /\ Truthy(field_name, field_value)
  /\ ~(field_name_snake = "minimum" /\ field_value = 0)

KeepField(field_name_snake, field_name, field_value) ==
  /\ field_name_snake \in supported_fields
  /\ ~IsNone(field_name, field_value)

\* One pass of the loop over schema.items(): whether the branch taken for
\* the field assigns snake_case_schema[field_name_snake] ...
FieldAssigns(node, field_name) ==
  LET field_value == node[field_name]
      field_name_snake == _to_snake_case(field_name)
  IN  IF field_name_snake \in schema_field_names THEN TRUE
      ELSE IF field_name_snake \in list_schema_field_names THEN TRUE
      ELSE IF field_name_snake \in dict_schema_field_names
              /\ ~IsNone(field_name, field_value)
      THEN TRUE
      ELSE IF field_name_snake = "format" /\ Truthy(field_name, field_value)
      THEN FormatSupported(node, field_value)
      ELSE KeepField(field_name_snake, field_name, field_value)

\* ... and the value it assigns.
FieldValue(node, field_name, in_any_of) ==
  LET field_value == node[field_name]
      field_name_snake == _to_snake_case(field_name)
  IN  IF field_name_snake \in schema_field_names
      THEN SanitizeItems(field_value, in_any_of)
      ELSE IF field_name_snake \in list_schema_field_names
      THEN SanitizeAnyOf(field_value, in_any_of)
      ELSE IF field_name_snake \in dict_schema_field_names
              /\ ~IsNone(field_name, field_value)
      THEN SanitizeProperties(field_value, in_any_of)
      ELSE field_value

Position(field_name) ==
  CHOOSE i \in 1..Len(FieldOrder) : FieldOrder[i] = field_name

\* for field_name, field_value in schema.items(): a later assignment to the
\* same snake-case key overwrites an earlier one.
LoopFields(node, in_any_of) ==
  LET assigning == {k \in DOMAIN node : FieldAssigns(node, k)}
      last(ks) == CHOOSE k \in assigning :
                    /\ _to_snake_case(k) = ks
                    /\ \A k2 \in assigning :
                          _to_snake_case(k2) = ks => Position(k2) <= Position(k)
  IN  [ks \in {_to_snake_case(k) : k \in assigning} |->
         FieldValue(node, last(ks), in_any_of)]

_sanitize_schema_formats_for_gemini_fixed(node, in_any_of) ==
  _sanitize_schema_type_fixed(LoopFields(node, in_any_of), in_any_of)

----------------------------------------------------------------------------
(* Schema.from_json_schema: the conversion of the sanitized document to    *)
(* the vendor schema, which collapses nullable unions (spec 4.1, items 1   *)
(* to 4).                                                                  *)

StructuralKeys == {"type", "nullable", "properties", "items", "any_of"}

\* The bare null type: {"type": "null"} and nothing else.
IsNullTypeNode(node) == DOMAIN node = {"type"} /\ node["type"] = Str("null")

\* (non_null_types, nullable) of a type value
NonNullTypes(tv) == SelectSeq(tv.tags, LAMBDA t : t # "null")

TypeNullable(tv) == \E i \in 1..Len(tv.tags) : tv.tags[i] = "null"

\* X with nullable set and the union node's own annotations merged onto it.
CollapseOnto(x, unionAnnotations) ==
  [k \in DOMAIN x \cup DOMAIN unionAnnotations \cup {"nullable"} |->
     IF k = "nullable" THEN TRUE
     ELSE IF k \in DOMAIN unionAnnotations THEN unionAnnotations[k]
     ELSE x[k]]

RECURSIVE from_json_schema(_)

from_json_schema(node) ==
  LET annotations == Remove(node, StructuralKeys)
      nonNull == IF Has(node, "type") THEN NonNullTypes(node["type"]) ELSE <<>>
      nullable == Has(node, "type") /\ TypeNullable(node["type"])
      withNullable == IF nullable THEN Put(annotations, "nullable", TRUE)
                      ELSE annotations
      withProps ==
        IF Has(node, "properties")
        THEN Put(withNullable, "properties",
                 [key \in DOMAIN node["properties"] |->
                    from_json_schema(node["properties"][key])])
        ELSE withNullable
      withItems ==
        IF Has(node, "items")
        THEN Put(withProps, "items", from_json_schema(node["items"]))
        ELSE withProps
  IN  IF Len(nonNull) > 1
      THEN \* item 4: a union over the non-null tags
           Put(withItems, "any_of",
               [i \in 1..Len(nonNull) |-> [type |-> Str(nonNull[i])]])
      ELSE LET typed == IF Len(nonNull) = 1
                        THEN Put(withItems, "type", Str(nonNull[1]))
                        ELSE withItems
           IN  IF ~Has(node, "any_of") THEN typed
               ELSE LET any_of == node["any_of"]
                    IN  IF Len(any_of) = 2 /\ IsNullTypeNode(any_of[2])
                        THEN CollapseOnto(from_json_schema(any_of[1]),
                                          annotations)
                        ELSE IF Len(any_of) = 2 /\ IsNullTypeNode(any_of[1])
                        THEN CollapseOnto(from_json_schema(any_of[2]),
                                          annotations)
                        ELSE Put(typed, "any_of",
                                 [i \in 1..Len(any_of) |->
                                    from_json_schema(any_of[i])])

\* _ExtendedJSONSchema.model_validate: the type of every node is a type tag
\* or a list of type tags.
JSONSchemaType ==
  {"string", "integer", "number", "boolean", "object", "array", "null"}

RECURSIVE model_validate(_)

model_validate(node) ==
  /\ Has(node, "type") =>
        /\ "str" \notin DOMAIN node["type"]
        /\ \A i \in 1..Len(node["type"].tags) :
              node["type"].tags[i] \in JSONSchemaType
  /\ Has(node, "properties") =>
        \A key \in DOMAIN node["properties"] :
           model_validate(node["properties"][key])
  /\ Has(node, "items") => model_validate(node["items"])
  /\ Has(node, "any_of") =>
        \A i \in 1..Len(node["any_of"]) : model_validate(node["any_of"][i])

\* test_fix_proposal.py, "Fixed Approach": sanitize, then convert.
FixedApproach(node, in_any_of) ==
  from_json_schema(_sanitize_schema_formats_for_gemini_fixed(node, in_any_of))

Normalize(node) == FixedApproach(node, FALSE)

----------------------------------------------------------------------------
(* The input documents *)

MaxTypeLen == 3

MaxAlts == 3

MaxDepth == 2

Tags == {"string", "integer", "null"}

TypeLists == UNION {[1..n -> Tags] : n \in 0..MaxTypeLen}

TypeValues == {Str(t) : t \in Tags \cup {"object"}} \cup {Lst(s) : s \in TypeLists}

AnnotationSets ==
  { EmptyNode,
    [description |-> "Person's age", title |-> "Age"],
    [description |-> NoneV],
    [minimum |-> 0],
    [format |-> "int32"],
    [format |-> "date-time"],
    [format |-> "email"],
    [format |-> ""],
    [minItems |-> 1],
    [examples |-> "e"],
    [additionalProperties |-> FALSE] }

TypedLeaves ==
  AnnotationSets \cup {Put(a, "type", tv) : a \in AnnotationSets, tv \in TypeValues}

NullNode == [type |-> Str("null")]

IntegerNode == [type |-> Str("integer"), minimum |-> 0]

StringNode == [type |-> Str("string")]

CorePool == {NullNode, IntegerNode, StringNode, [type |-> Str("null"), description |-> "d"]}

AltPool ==
  CorePool \cup
  { EmptyNode,
    [type |-> Str("null"), examples |-> "e"],
    [type |-> Lst(<<"string", "null">>)],
    [type |-> Str("integer"), format |-> "int32", description |-> "alt"],
    [type |-> Str("object"), properties |-> [a |-> NullNode]],
    [anyOf |-> <<StringNode, IntegerNode>>] }

Alternatives ==
  UNION {[1..n -> AltPool] : n \in 1..2}
  \cup UNION {[1..n -> CorePool] : n \in 3..MaxAlts}

UnionAnnotations ==
  { EmptyNode,
    [description |-> "Person's age", title |-> "Age"],
    [type |-> Str("object")],
    [minimum |-> 1, examples |-> "e"] }

Unions == {Put(a, "anyOf", alts) : a \in UnionAnnotations, alts \in Alternatives}

\* Documents that already use the snake-case keyword.
SnakeUnions ==
  { [any_of |-> <<IntegerNode, NullNode>>],
    [any_of |-> <<IntegerNode, NullNode>>, description |-> "Person's age", title |-> "Age"],
    [anyOf |-> <<StringNode, NullNode>>, any_of |-> <<IntegerNode, StringNode>>] }

WrapPool ==
  {n \in TypedLeaves :
     /\ DOMAIN n \subseteq {"type", "description", "title"}
     /\ Has(n, "type") => Len(n["type"].tags) <= 2}
  \cup {u \in Unions :
          /\ DOMAIN u \subseteq {"anyOf", "description", "title"}
          /\ Len(u["anyOf"]) = 2
          /\ \A i \in 1..2 : u["anyOf"][i] \in CorePool}

Wraps(n) ==
  { [properties |-> [age |-> n]],
    [type |-> Str("object"),
     properties |-> [name |-> [type |-> Str("string"),
                               description |-> "Person's name"],
                     age |-> n]],
    [type |-> Str("array"), items |-> n],
    [anyOf |-> <<n, NullNode>>] }

RECURSIVE Wrapped(_)

Wrapped(d) ==
  IF d = 0 THEN WrapPool
  ELSE LET inner == Wrapped(d - 1) IN inner \cup UNION {Wraps(n) : n \in inner}

\* Documents with a type that is no string and no list
MalformedNode == [type |-> NotAString("5")]

MalformedInputs ==
  { MalformedNode,
    [type |-> NotAString("5"), description |-> "Person's age"],
    [type |-> Str("object"),
     properties |-> [name |-> [type |-> Str("string"),
                               description |-> "Person's name"],
                     age |-> MalformedNode]],
    [type |-> Str("array"), items |-> MalformedNode],
    [anyOf |-> <<MalformedNode, NullNode>>] }

\* Documents whose properties are named like schema keywords, in camel case,
\* or outside the supported fields
KeywordNamedProperties ==
  [type |-> StringNode,
   anyOf |-> NullNode,
   items |-> IntegerNode,
   format |-> [type |-> Lst(<<"string", "null">>)],
   minItems |-> [type |-> Str("integer"), format |-> "int32"],
   examples |-> [description |-> "no type"]]

KeywordNamedInputs ==
  { [type |-> Str("object"), properties |-> KeywordNamedProperties],
    [properties |-> [type |-> NullNode]],
    \* a property named properties, holding a node with such a property
    [properties |->
       [properties |-> [properties |-> [properties |-> NullNode]]]],
    [anyOf |-> <<[type |-> Str("object"),
                  properties |-> [anyOf |-> NullNode, format |-> StringNode]],
                 NullNode>>],
    [type |-> Str("array"),
     items |-> [properties |-> [items |-> NullNode, minItems |-> IntegerNode]]] }

\* The values of format: the four the sanitizer knows, another one, "" and
\* None
FormatValues == {"int32", "int64", "date-time", "enum", "email", "", NoneV}

\* Nodes with a format, with and without a type
FormatInputs ==
  {[format |-> f] : f \in FormatValues}
  \cup {[type |-> tv, format |-> f] :
          tv \in {Str("integer"), Str("number"), Str("string"), Str("boolean"),
                  Lst(<<"string", "null">>), Lst(<<"integer">>)},
          f \in FormatValues}

Inputs ==
  TypedLeaves \cup Unions \cup SnakeUnions \cup Wrapped(MaxDepth)
  \cup MalformedInputs \cup KeywordNamedInputs \cup FormatInputs

----------------------------------------------------------------------------
(* The run of the pipeline on one document *)

\* The sample is not running.
SampleIdle ==
  /\ rag_corpus = NoneV
  /\ vertex_raises = FALSE
  /\ rag_tool = NoneV
  /\ agents = EmptyNode
  /\ sessions = {}
  /\ main_pc = "idle"
  /\ query_index = 0
  /\ yielded = 0
  /\ response_parts = <<>>
  /\ printed = <<>>
  /\ runs = <<>>
  /\ events = <<>>

Init ==
  /\ schema \in Inputs
  /\ pc = "start"
  /\ sanitized = EmptyNode
  /\ result = EmptyNode
  /\ heap = <<>>
  /\ stack = <<>>
  /\ outcome = "idle"
  /\ SampleIdle

\* sanitized_new = _sanitize_schema_formats_for_gemini_fixed(pydantic_schema)
Sanitize ==
  /\ pc = "start"
  /\ sanitized' = _sanitize_schema_formats_for_gemini_fixed(schema, FALSE)
  /\ pc' = "sanitized"
  /\ UNCHANGED <<schema, result>>
  /\ UNCHANGED callVars
  /\ UNCHANGED sampleVars

\* json_schema_new = _ExtendedJSONSchema.model_validate(sanitized_new)
\* raises, and the script ends.
Reject ==
  /\ pc = "sanitized"
  /\ ~model_validate(sanitized)
  /\ pc' = "rejected"
  /\ UNCHANGED <<schema, sanitized, result>>
  /\ UNCHANGED callVars
  /\ UNCHANGED sampleVars

\* gemini_schema_new = Schema.from_json_schema(json_schema=json_schema_new)
Convert ==
  /\ pc = "sanitized"
  /\ model_validate(sanitized)
  /\ result' = from_json_schema(sanitized)
  /\ pc' = "converted"
  /\ UNCHANGED <<schema, sanitized>>
  /\ UNCHANGED callVars
  /\ UNCHANGED sampleVars

Next == Sanitize \/ Reject \/ Convert

Spec == Init /\ [][Next]_vars

----------------------------------------------------------------------------
(* test_pr_3280_fix.py: the sanitizer without _sanitize_schema_type *)

\* the copy followed by the rewriting of the type, as before the change
TypeRewriting_sanitize_schema_formats_for_gemini_new(node, supported) ==
  _sanitize_schema_type_fixed(
    [k \in {f \in DOMAIN node : f \in supported /\ ~IsNone(f, node[f])} |->
       node[k]],
    FALSE)

_sanitize_schema_formats_for_gemini_new(node, supported) ==
  LET snake_case_schema ==
        [field_name \in {f \in DOMAIN node :
                           f \in supported /\ ~IsNone(f, node[f])} |->
           node[field_name]]
  IN  IF DOMAIN snake_case_schema = {}
      THEN [type |-> Str("object")]
      ELSE snake_case_schema

\* The values of the parameter supported_fields
SupportedSets == {supported_fields, {"type", "description"}, {}}

PRInit ==
  /\ schema \in Inputs
  /\ pc = "start"
  /\ sanitized = EmptyNode
  /\ result = EmptyNode
  /\ heap = <<>>
  /\ stack = <<>>
  /\ outcome = "idle"
  /\ SampleIdle

\* _sanitize_schema_formats_for_gemini_new(schema, supported_fields)
SanitizeNew ==
  /\ pc = "start"
  /\ sanitized' = _sanitize_schema_formats_for_gemini_new(schema,
                                                         supported_fields)
  /\ pc' = "sanitized_new"
  /\ UNCHANGED <<schema, result>>
  /\ UNCHANGED callVars
  /\ UNCHANGED sampleVars

PRNext == SanitizeNew

PRSpec == PRInit /\ [][PRNext]_vars

----------------------------------------------------------------------------
(* One call of _sanitize_schema_formats_for_gemini_fixed, frame by frame.   *)
(* The dicts are objects of the heap, and a nested schema is a reference   *)
(* to one, so that a document may reach itself and a write names the       *)
(* object it is made to.  heap[1..MaxObjects] are the objects of the       *)
(* input, heap[1] the argument; every call allocates its                   *)
(* snake_case_schema behind them.                                          *)

MaxObjects == 2

\* The depth of the call stack at which the interpreter raises
\* RecursionError.
RecursionLimit == 4

InputIds == 1..MaxObjects

CallTypes == {Str("null"), Str("string"), Lst(<<"null", "string">>)}

ObjectShapes ==
  {[type |-> tv] : tv \in CallTypes}
  \cup {[type |-> Str("array"), items |-> r] : r \in InputIds}
  \cup {[anyOf |-> <<r1, r2>>] : r1 \in InputIds, r2 \in InputIds}
  \cup {[properties |-> [age |-> r]] : r \in InputIds}

\* The fields whose values are schemas: for them the loop makes calls.
ChildFields == {"items", "anyOf", "any_of", "properties"}

KeyOrder == <<"name", "age">>

\* The calls the loop over schema.items() makes, in order: the field that
\* receives the result, the object passed, and its key under properties.
Slots(node) ==
  (IF Has(node, "anyOf")
   THEN [i \in 1..Len(node["anyOf"]) |->
           [field |-> "any_of", ref |-> node["anyOf"][i], key |-> ""]]
   ELSE <<>>)
  \o (IF Has(node, "properties")
      THEN LET keys == SelectSeq(KeyOrder,
                                 LAMBDA k : k \in DOMAIN node["properties"])
           IN  [i \in 1..Len(keys) |->
                  [field |-> "properties", ref |-> node["properties"][keys[i]],
                   key |-> keys[i]]]
      ELSE <<>>)
  \o (IF Has(node, "items")
      THEN << [field |-> "items", ref |-> node["items"], key |-> ""] >>
      ELSE <<>>)

\* The fields the loop copies without a call
CopiedFields(node, in_any_of) ==
  LoopFields([k \in DOMAIN node \ ChildFields |-> node[k]], in_any_of)

\* snake_case_schema[field_name_snake] takes the object a call returned.
Receive(dict, slot, ref) ==
  CASE slot.field = "items" -> Put(dict, "items", ref)
    [] slot.field = "any_of" ->
         Put(dict, "any_of",
             Append(IF Has(dict, "any_of") THEN dict["any_of"] ELSE <<>>, ref))
    [] slot.field = "properties" ->
         Put(dict, "properties",
             Put(IF Has(dict, "properties") THEN dict["properties"]
                 ELSE EmptyNode,
                 slot.key, ref))

\* The object handed to _sanitize_schema_type_fixed, which writes to it
InputAsSanitizeTarget(frame) == frame.schema

SanitizeTarget(frame) == frame.snake_case_schema

Top == stack[Len(stack)]

CallInit ==
  /\ \E objects \in [InputIds -> ObjectShapes] :
        /\ heap = [id \in 1..MaxObjects + 1 |->
                     IF id \in InputIds THEN objects[id]
                     ELSE CopiedFields(objects[1], FALSE)]
        /\ stack = << [schema |-> 1, snake_case_schema |-> MaxObjects + 1,
                       in_any_of |-> FALSE, todo |-> Slots(objects[1]),
                       typed |-> FALSE] >>
  /\ outcome = "running"
  /\ schema = EmptyNode
  /\ pc = "idle"
  /\ sanitized = EmptyNode
  /\ result = EmptyNode
  /\ SampleIdle

\* A nested call: a new frame with its own snake_case_schema = {}
Call ==
  /\ outcome = "running"
  /\ Top.todo # <<>>
  /\ Len(stack) < RecursionLimit
  /\ LET slot == Head(Top.todo)
         ctx == IF slot.field = "any_of" THEN AnyOfContext(Top.in_any_of)
                ELSE ChildContext(Top.in_any_of)
     IN  /\ heap' = Append(heap, CopiedFields(heap[slot.ref], ctx))
         /\ stack' = Append(stack,
                            [schema |-> slot.ref,
                             snake_case_schema |-> Len(heap) + 1,
                             in_any_of |-> ctx,
                             todo |-> Slots(heap[slot.ref]),
                             typed |-> FALSE])
  /\ UNCHANGED outcome
  /\ UNCHANGED scriptVars
  /\ UNCHANGED sampleVars

\* A nested call beyond the recursion limit: RecursionError unwinds the
\* stack.
Overflow ==
  /\ outcome = "running"
  /\ Top.todo # <<>>
  /\ Len(stack) >= RecursionLimit
  /\ outcome' = "RecursionError"
  /\ stack' = <<>>
  /\ UNCHANGED heap
  /\ UNCHANGED scriptVars
  /\ UNCHANGED sampleVars

\* return _sanitize_schema_type_fixed(snake_case_schema, in_any_of): the
\* rewriting of the type, in place
SanitizeType ==
  /\ outcome = "running"
  /\ Top.todo = <<>>
  /\ ~Top.typed
  /\ LET target == SanitizeTarget(Top)
     IN  heap' = [heap EXCEPT ![target] =
                    _sanitize_schema_type_fixed(heap[target], Top.in_any_of)]
  /\ stack' = [stack EXCEPT ![Len(stack)].typed = TRUE]
  /\ UNCHANGED outcome
  /\ UNCHANGED scriptVars
  /\ UNCHANGED sampleVars

\* ... and the return of the object to the caller, which stores it.
Return ==
  /\ outcome = "running"
  /\ Top.todo = <<>>
  /\ Top.typed
  /\ IF Len(stack) = 1
     THEN /\ outcome' = "returned"
          /\ stack' = <<>>
          /\ UNCHANGED heap
     ELSE LET caller == stack[Len(stack) - 1]
              slot == Head(caller.todo)
          IN  /\ heap' = [heap EXCEPT ![caller.snake_case_schema] =
                             Receive(@, slot, Top.snake_case_schema)]
              /\ stack' = Append(SubSeq(stack, 1, Len(stack) - 2),
                                 [caller EXCEPT !.todo = Tail(@)])
              /\ UNCHANGED outcome
  /\ UNCHANGED scriptVars
  /\ UNCHANGED sampleVars

CallNext == Call \/ Overflow \/ SanitizeType \/ Return

CallSpec == CallInit /\ [][CallNext]_vars

----------------------------------------------------------------------------
(* contributing/samples/tool_runner_rag_pattern/agent.py: main()           *)

\* The demo queries of main
NumQueries == 5

\* The events one run of the runner may yield
MaxEvents == 2

\* queries, in the order of the list
queries ==
  << "What's the weather in New York?",
     "Search the knowledge base for information about Python",
     "What's the weather in London and also search for information about climate?",
     "Calculate the wind chill if the temperature is 32F and wind speed is 15 mph",
     "Can you search for machine learning information?" >>

\* every event counted as a response
CollectAnyEvent(parts, event) ==
  IF /\ "parts" \in DOMAIN event
     /\ event.parts # <<>>
     /\ event.parts[1] # ""
  THEN Append(parts, event.parts[1])
  ELSE parts

APP_NAME == "tool_runner_rag_example"

USER_ID == "demo_user"

SESSION_ID == "demo_session"

\* A Python function given as a tool
FunctionTool(name) == [kind |-> "function", name |-> name]

get_weather == FunctionTool("get_weather")

calculate_wind_chill == FunctionTool("calculate_wind_chill")

mock_rag_search == FunctionTool("mock_rag_search")

VertexAiRagRetrieval == [kind |-> "VertexAiRagRetrieval",
                         name |-> "search_knowledge_base"]

AgentTool(agent) == [kind |-> "AgentTool", name |-> agent]

\* os.environ.get("RAG_CORPUS"): unset, empty or the name of a corpus
CorpusValues == {NoneV, "", "projects/p/locations/l/ragCorpora/1"}

\* without the except clause: the exception of the constructor leaves
\* create_rag_tool
Unhandled_create_rag_tool(corpus, raises) ==
  IF corpus = NoneV \/ corpus = "" THEN mock_rag_search
  ELSE IF raises THEN [kind |-> "Exception", name |-> "Exception"]
  ELSE VertexAiRagRetrieval

\* create_rag_tool()
create_rag_tool(corpus, raises) ==
  IF corpus = NoneV \/ corpus = "" THEN mock_rag_search
  ELSE IF raises THEN mock_rag_search
  ELSE VertexAiRagRetrieval

\* tools=[rag_tool, get_weather]: the pattern the sample avoids
MixedKnowledgeTools(tool) == <<tool, get_weather>>

\* tools=[rag_tool]
KnowledgeTools(tool) == <<tool>>

\* tools=[get_weather, calculate_wind_chill, AgentTool(agent=knowledge_agent)]
OrchestratorTools(knowledge_agent) ==
  <<get_weather, calculate_wind_chill, AgentTool(knowledge_agent)>>

\* The events of runner.run_async: final or not, without content or with
\* the texts of the parts of its content.
PartLists == {<<>>, <<"">>, <<"a">>, <<"b", "a">>}

Events ==
  {[is_final_response |-> f] : f \in BOOLEAN}
  \cup {[is_final_response |-> f, parts |-> ps] :
          f \in BOOLEAN, ps \in PartLists}

\* The body of the async for: what response_parts is after the event
Collect(parts, event) ==
  IF /\ event.is_final_response
     /\ "parts" \in DOMAIN event
     /\ event.parts # <<>>
     /\ event.parts[1] # ""
  THEN Append(parts, event.parts[1])
  ELSE parts

SampleInit ==
  /\ rag_corpus \in CorpusValues
  /\ vertex_raises \in BOOLEAN
  /\ rag_tool = NoneV
  /\ agents = EmptyNode
  /\ sessions = {}
  /\ main_pc = "start"
  /\ query_index = 0
  /\ yielded = 0
  /\ response_parts = <<>>
  /\ printed = <<>>
  /\ runs = <<>>
  /\ events = <<>>
  /\ schema = EmptyNode
  /\ pc = "idle"
  /\ sanitized = EmptyNode
  /\ result = EmptyNode
  /\ heap = <<>>
  /\ stack = <<>>
  /\ outcome = "idle"

\* rag_tool = create_rag_tool()
CreateRagTool ==
  /\ main_pc = "start"
  /\ rag_tool' = create_rag_tool(rag_corpus, vertex_raises)
  /\ main_pc' = "rag_tool"
  /\ UNCHANGED <<rag_corpus, vertex_raises, agents, sessions, query_index,
                 yielded, response_parts, printed, runs, events>>
  /\ UNCHANGED scriptVars
  /\ UNCHANGED callVars

\* create_knowledge_retrieval_agent(): return Agent(..., tools=[rag_tool])
CreateKnowledgeAgent ==
  /\ main_pc = "rag_tool"
  /\ agents' = Put(agents, "knowledge_retrieval_agent",
                   KnowledgeTools(rag_tool))
  /\ main_pc' = "knowledge_agent"
  /\ UNCHANGED <<rag_corpus, vertex_raises, rag_tool, sessions, query_index,
                 yielded, response_parts, printed, runs, events>>
  /\ UNCHANGED scriptVars
  /\ UNCHANGED callVars

\* create_main_orchestrator(): return Agent(..., tools=[...])
CreateMainOrchestrator ==
  /\ main_pc = "knowledge_agent"
  /\ agents' = Put(agents, "weather_and_knowledge_orchestrator",
                   OrchestratorTools("knowledge_retrieval_agent"))
  /\ main_pc' = "root_agent"
  /\ UNCHANGED <<rag_corpus, vertex_raises, rag_tool, sessions, query_index,
                 yielded, response_parts, printed, runs, events>>
  /\ UNCHANGED scriptVars
  /\ UNCHANGED callVars

\* await runner.session_service.create_session(...)
CreateSession ==
  /\ main_pc = "root_agent"
  /\ sessions' = sessions \cup {<<APP_NAME, USER_ID, SESSION_ID>>}
  /\ main_pc' = "ready"
  /\ UNCHANGED <<rag_corpus, vertex_raises, rag_tool, agents, query_index,
                 yielded, response_parts, printed, runs, events>>
  /\ UNCHANGED scriptVars
  /\ UNCHANGED callVars

\* for query in queries: await demo_query(runner, query), up to the call of
\* runner.run_async
StartQuery ==
  /\ main_pc = "ready"
  /\ query_index < NumQueries
  /\ query_index' = query_index + 1
  /\ response_parts' = <<>>
  /\ yielded' = 0
  /\ runs' = Append(runs, [user_id |-> USER_ID, session_id |-> SESSION_ID,
                           new_message |-> queries[query_index + 1]])
  /\ events' = <<>>
  /\ main_pc' = "run_async"
  /\ UNCHANGED <<rag_corpus, vertex_raises, rag_tool, agents, sessions,
                 printed>>
  /\ UNCHANGED scriptVars
  /\ UNCHANGED callVars

\* async for event in runner.run_async(...): one event
Yield ==
  /\ main_pc = "run_async"
  /\ yielded < MaxEvents
  /\ \E event \in Events :
        /\ response_parts' = Collect(response_parts, event)
        /\ events' = Append(events, event)
  /\ yielded' = yielded + 1
  /\ UNCHANGED <<rag_corpus, vertex_raises, rag_tool, agents, sessions,
                 main_pc, query_index, printed, runs>>
  /\ UNCHANGED scriptVars
  /\ UNCHANGED callVars

\* The stream ends: for part in response_parts: print(part)
PrintResponse ==
  /\ main_pc = "run_async"
  /\ printed' = response_parts
  /\ main_pc' = "ready"
  /\ UNCHANGED <<rag_corpus, vertex_raises, rag_tool, agents, sessions,
                 query_index, yielded, response_parts, runs, events>>
  /\ UNCHANGED scriptVars
  /\ UNCHANGED callVars

\* runner.run_async raises: demo_query and main have no handler, the
\* exception leaves main.
RunnerRaises ==
  /\ main_pc = "run_async"
  /\ main_pc' = "raised"
  /\ UNCHANGED <<rag_corpus, vertex_raises, rag_tool, agents, sessions,
                 query_index, yielded, response_parts, printed, runs,
                 events>>
  /\ UNCHANGED scriptVars
  /\ UNCHANGED callVars

\* The loop over queries is over: main returns.
Finish ==
  /\ main_pc = "ready"
  /\ query_index = NumQueries
  /\ main_pc' = "done"
  /\ UNCHANGED <<rag_corpus, vertex_raises, rag_tool, agents, sessions,
                 query_index, yielded, response_parts, printed, runs,
                 events>>
  /\ UNCHANGED scriptVars
  /\ UNCHANGED callVars

SampleNext ==
  \/ CreateRagTool
  \/ CreateKnowledgeAgent
  \/ CreateMainOrchestrator
  \/ CreateSession
  \/ StartQuery
  \/ Yield
  \/ PrintResponse
  \/ RunnerRaises
  \/ Finish

SampleSpec == SampleInit /\ [][SampleNext]_vars

----------------------------------------------------------------------------
(* Vocabulary of the properties *)

Converted == pc = "converted"

\* A union node of the input: it lists its alternatives under "anyOf".
IsUnion(node) == Has(node, "anyOf") /\ ~Has(node, "any_of")

\* A typed node of the input: it lists no alternatives.
IsTyped(node) == ~Has(node, "anyOf") /\ ~Has(node, "any_of")

\* The snake-case names of the fields a union node carries beside anyOf.
OwnFields(node) == {_to_snake_case(k) : k \in DOMAIN node \ {"anyOf"}}

\* A union node of exactly two alternatives, exactly one the bare null type.
IsNullablePair(node) ==
  /\ IsUnion(node)
  /\ Len(node["anyOf"]) = 2
  /\ (node["anyOf"][1] = NullNode) # (node["anyOf"][2] = NullNode)

OtherAlternative(node) ==
  IF node["anyOf"][1] = NullNode THEN node["anyOf"][2] ELSE node["anyOf"][1]

\* x with nullable true, compared outside the fields the union node carries
NullableFormOf(out, x, own) ==
  /\ \A k \in DOMAIN x \ (own \cup {"nullable"}) : Has(out, k) /\ out[k] = x[k]
  /\ DOMAIN out \subseteq DOMAIN x \cup own \cup {"nullable"}
  /\ Has(out, "nullable") /\ out["nullable"] = TRUE

\* Every node of an output tree
RECURSIVE NodesOf(_)

NodesOf(node) ==
  {node}
  \cup (IF Has(node, "properties")
        THEN UNION {NodesOf(node["properties"][key]) :
                      key \in DOMAIN node["properties"]}
        ELSE {})
  \cup (IF Has(node, "items") THEN NodesOf(node["items"]) ELSE {})
  \cup (IF Has(node, "any_of")
        THEN UNION {NodesOf(node["any_of"][i]) : i \in 1..Len(node["any_of"])}
        ELSE {})

\* Every node of an input tree
RECURSIVE InputNodes(_)

InputNodes(node) ==
  {node}
  \cup (IF Has(node, "properties")
        THEN UNION {InputNodes(node["properties"][key]) :
                      key \in DOMAIN node["properties"]}
        ELSE {})
  \cup (IF Has(node, "items") THEN InputNodes(node["items"]) ELSE {})
  \cup UNION {UNION {InputNodes(node[k][i]) : i \in 1..Len(node[k])} :
                k \in DOMAIN node \cap {"anyOf", "any_of"}}

----------------------------------------------------------------------------
(* C1 *)

\* C1, as stated: a union node of exactly two alternatives, exactly one of
\* them the bare null type (in either order), normalizes to the normalized
\* form of the other alternative with nullable true, and the result is not a
\* union node.
C1_CollapseToNormalizedAlternative ==
  (Converted /\ IsNullablePair(schema)) =>
     /\ NullableFormOf(result, Normalize(OtherAlternative(schema)),
                       OwnFields(schema))
     /\ ~Has(result, "any_of")

\* C1, amended: such a union node normalizes to the other alternative as it
\* is normalized in its place in the any_of list (where a single null type
\* tag is kept), with nullable true and the union node's own fields merged
\* on; the result is a union node only when that alternative normalizes to
\* one.
C1_CollapseToAlternativeInPlace ==
  (Converted /\ IsNullablePair(schema)) =>
     LET x == FixedApproach(OtherAlternative(schema), TRUE)
     IN  /\ NullableFormOf(result, x, OwnFields(schema))
         /\ Has(result, "any_of") <=> Has(x, "any_of")

C1_Witness ==
  /\ Converted
  /\ schema = [anyOf |-> <<NullNode, IntegerNode>>]
  /\ result = [type |-> Str("integer"), minimum |-> 0, nullable |-> TRUE]

----------------------------------------------------------------------------
(* C2 *)

\* C2: in the output of normalization no node at any depth has both a type
\* and an any_of list.
C2_NoTypeBesideAnyOf ==
  Converted =>
     \A n \in NodesOf(result) : ~(Has(n, "type") /\ Has(n, "any_of"))

----------------------------------------------------------------------------
(* C3 *)

AgeUnion ==
  [anyOf |-> <<IntegerNode, NullNode>>,
   description |-> "Person's age", title |-> "Age"]

\* C3: the nullable union that carries a description and a title of its own
\* is collapsed: the age node has type integer, minimum 0, nullable true, the
\* description and the title, and no any_of.
C3_AnnotatedUnionCollapsed ==
  (Converted /\ schema = [properties |-> [age |-> AgeUnion]]) =>
     /\ DOMAIN result = {"properties"}
     /\ DOMAIN result["properties"] = {"age"}
     /\ result["properties"]["age"] =
          [type |-> Str("integer"), minimum |-> 0, nullable |-> TRUE,
           description |-> "Person's age", title |-> "Age"]
     /\ ~Has(result["properties"]["age"], "any_of")

C3_Witness ==
  /\ Converted
  /\ schema = [properties |-> [age |-> AgeUnion]]
  /\ Has(result["properties"]["age"], "nullable")

----------------------------------------------------------------------------
(* C4 *)

\* The type is a two-element list of null and exactly one other tag.
IsNullableTypePair(node) ==
  /\ IsTyped(node)
  /\ Has(node, "type")
  /\ node["type"].list
  /\ Len(node["type"].tags) = 2
  /\ Len(NonNullTypes(node["type"])) = 1

\* C4: a node whose type is [T, null] or [null, T] normalizes to a node of
\* the single type T with nullable true; the output type is not a list.
C4_NullableTypePairCollapsed ==
  /\ (Converted /\ IsNullableTypePair(schema)) =>
        /\ Has(result, "type")
        /\ result["type"] = Str(NonNullTypes(schema["type"])[1])
        /\ Has(result, "nullable") /\ result["nullable"] = TRUE
  /\ \A n \in InputNodes(schema), in_any_of \in BOOLEAN :
        IsNullableTypePair(n) =>
           LET out == FixedApproach(n, in_any_of)
           IN  /\ Has(out, "type")
               /\ out["type"] = Str(NonNullTypes(n["type"])[1])
               /\ Has(out, "nullable") /\ out["nullable"] = TRUE

C4_Witness ==
  /\ Converted
  /\ schema = [type |-> Lst(<<"null", "integer">>)]
  /\ result = [type |-> Str("integer"), nullable |-> TRUE]

----------------------------------------------------------------------------
(* C5 *)

\* The tags an output node admits: its type, or the types of its
\* alternatives.
AdmittedTags(out) ==
  (IF Has(out, "type") THEN {out["type"].tags[1]} ELSE {})
  \cup (IF Has(out, "any_of")
        THEN UNION {IF Has(out["any_of"][i], "type")
                    THEN {out["any_of"][i]["type"].tags[1]} ELSE {} :
                    i \in 1..Len(out["any_of"])}
        ELSE {})

\* C5: a node whose type is a list of null and two or more other tags keeps
\* every non-null tag, with nullable true: no non-null tag of the list is
\* lost.
C5_NonNullTagsKept ==
  ( /\ Converted
    /\ IsTyped(schema)
    /\ Has(schema, "type")
    /\ schema["type"].list
    /\ TypeNullable(schema["type"])
    /\ Len(NonNullTypes(schema["type"])) >= 2 ) =>
     /\ \A i \in 1..Len(schema["type"].tags) :
           schema["type"].tags[i] # "null" =>
              schema["type"].tags[i] \in AdmittedTags(result)
     /\ Has(result, "nullable") /\ result["nullable"] = TRUE

----------------------------------------------------------------------------
(* C6 *)

\* C6: a node with no type, no alternatives and no properties, the empty
\* node and a node of annotations only included, normalizes to a node whose
\* type is object.
C6_UntypedNodeIsObject ==
  ( /\ Converted
    /\ IsTyped(schema)
    /\ ~Has(schema, "type")
    /\ ~Has(schema, "properties") ) =>
     /\ Has(result, "type")
     /\ result["type"] = Str("object")

----------------------------------------------------------------------------
(* C7 *)

\* A union node that is not a nullable pair: more than two alternatives, or
\* no alternative that is the bare null type.
IsKeptUnion(node) ==
  /\ IsUnion(node)
  /\ \/ Len(node["anyOf"]) > 2
     \/ \A i \in 1..Len(node["anyOf"]) : node["anyOf"][i] # NullNode

\* C7, as stated: such a union node stays a union node with the same number
\* and order of alternatives, each the normalized form of the corresponding
\* input alternative.
C7_UnionKeptWithNormalizedAlternatives ==
  (Converted /\ IsKeptUnion(schema)) =>
     /\ Has(result, "any_of")
     /\ Len(result["any_of"]) = Len(schema["anyOf"])
     /\ \A i \in 1..Len(schema["anyOf"]) :
           result["any_of"][i] = Normalize(schema["anyOf"][i])

\* What is left of an alternative once the fields that are not kept are
\* dropped is the bare null type.
ReducesToNullType(alt) == LoopFields(alt, TRUE) = NullNode

\* C7, amended: a union node with more than two alternatives, or with no
\* alternative that reduces to the bare null type once its dropped fields are
\* gone, stays a union node with the same number and order of alternatives,
\* each the corresponding input alternative as it is normalized in its place
\* in the any_of list (where a single null type tag is kept).
C7_UnionKeptWithAlternativesInPlace ==
  ( /\ Converted
    /\ IsUnion(schema)
    /\ \/ Len(schema["anyOf"]) > 2
       \/ \A i \in 1..Len(schema["anyOf"]) :
             ~ReducesToNullType(schema["anyOf"][i]) ) =>
     /\ Has(result, "any_of")
     /\ Len(result["any_of"]) = Len(schema["anyOf"])
     /\ \A i \in 1..Len(schema["anyOf"]) :
           result["any_of"][i] = FixedApproach(schema["anyOf"][i], TRUE)

C7_Witness ==
  /\ Converted
  /\ schema = [anyOf |-> <<StringNode, IntegerNode, NullNode>>]
  /\ result = [any_of |-> << [type |-> Str("string")],
                             [type |-> Str("integer"), minimum |-> 0],
                             [nullable |-> TRUE] >>]

----------------------------------------------------------------------------
(* C8 *)

\* The values of properties and the items node of the output are the
\* normalized children of the input node, in the given any_of context.
ChildrenNormalized(node, out, in_any_of) ==
  /\ Has(node, "properties") =>
        /\ Has(out, "properties")
        /\ DOMAIN out["properties"] = DOMAIN node["properties"]
        /\ \A key \in DOMAIN node["properties"] :
              out["properties"][key] =
                 FixedApproach(node["properties"][key], in_any_of)
  /\ Has(node, "items") =>
        /\ Has(out, "items")
        /\ out["items"] = FixedApproach(node["items"], in_any_of)

\* A union node that normalization collapses onto one of its alternatives
Collapses(node) ==
  /\ IsUnion(node)
  /\ Len(node["anyOf"]) = 2
  /\ \E i \in 1..2 : LoopFields(node["anyOf"][i], TRUE) = NullNode

\* The alternatives of the output are the normalized alternatives of the
\* input node; how one alternative is normalized is norm.
AlternativesNormalized(node, out, norm(_)) ==
  (IsUnion(node) /\ ~Collapses(node)) =>
     /\ Has(out, "any_of")
     /\ Len(out["any_of"]) = Len(node["anyOf"])
     /\ \A i \in 1..Len(node["anyOf"]) :
           out["any_of"][i] = norm(node["anyOf"][i])

AsAlternative(node) == FixedApproach(node, TRUE)

\* C8, as stated: the same rules apply to every nested node: each value of
\* properties, the items node and each element of the alternatives list is
\* itself normalized.
C8_SameRulesAtEveryDepth ==
  Converted =>
     /\ IsTyped(schema) => ChildrenNormalized(schema, result, FALSE)
     /\ AlternativesNormalized(schema, result, Normalize)

\* C8, amended: each value of properties and the items node is normalized
\* under the rules of its parent, and each element of the alternatives list,
\* with everything below it, under the rules of a union alternative, which
\* keep a single null type tag instead of rewriting it to [object, null]; no
\* nested node escapes key renaming, allow-list filtering or the flattening
\* of list types.
C8_RulesFollowAnyOfContext ==
  /\ Converted =>
        /\ IsTyped(schema) => ChildrenNormalized(schema, result, FALSE)
        /\ AlternativesNormalized(schema, result, AsAlternative)
        /\ \A n \in NodesOf(result) :
              /\ DOMAIN n \subseteq supported_fields \cup {"nullable"}
              /\ Has(n, "type") => ~n["type"].list /\ n["type"] # Str("null")
  /\ \A n \in InputNodes(schema) :
        LET out == FixedApproach(n, TRUE)
        IN  /\ IsTyped(n) => ChildrenNormalized(n, out, TRUE)
            /\ AlternativesNormalized(n, out, AsAlternative)

C8_Witness ==
  /\ Converted
  /\ schema = [type |-> Str("array"),
               items |-> [properties |-> [age |-> [type |-> Lst(<<"null", "string">>)]]]]
  /\ result = [type |-> Str("array"),
               items |-> [properties |-> [age |-> [type |-> Str("string"),
                                                   nullable |-> TRUE]]]]

----------------------------------------------------------------------------
(* C9 *)

\* C9: every key of every output node is in the allow-list; a field whose
\* name is not in it is dropped, and the output is what it is without that
\* field.
C9_UnknownFieldsDropped ==
  Converted =>
     /\ \A n \in NodesOf(result) :
           DOMAIN n \subseteq (ModelFields \ {"additional_properties"})
                              \cup {"nullable"}
     /\ \A k \in DOMAIN schema :
           _to_snake_case(k) \notin ModelFields \ {"additional_properties"} =>
              result = Normalize(Remove(schema, {k}))

C9_Witness ==
  /\ Converted
  /\ schema = [type |-> Str("string"), examples |-> "e"]
  /\ result = [type |-> Str("string")]

----------------------------------------------------------------------------
(* C10 *)

\* The annotations that are copied whatever the type of the node
PlainAnnotations == {"description", "title", "minimum", "minItems"}

PlainAnnotationsKept(node, out) ==
  \A k \in DOMAIN node \cap PlainAnnotations :
     ~IsNone(k, node[k]) =>
        /\ Has(out, _to_snake_case(k))
        /\ out[_to_snake_case(k)] = node[k]

\* C10, as stated: every allow-listed annotation of an input node is on the
\* output node with the same value; a format hint is never dropped or
\* altered.
C10_AnnotationsPassThrough ==
  Converted =>
     /\ PlainAnnotationsKept(schema, result)
     /\ (Has(schema, "format") /\ ~IsNone("format", schema["format"])) =>
           /\ Has(result, "format")
           /\ result["format"] = schema["format"]

\* A format the vendor schema knows for the type of the node
KnownFormat(node) ==
  /\ Has(node, "type")
  /\ \/ node["type"] \in {Str("integer"), Str("number")}
        /\ node["format"] \in {"int32", "int64"}
     \/ node["type"] = Str("string") /\ node["format"] \in {"date-time", "enum"}

FormatKeptWhenKnown(node, out) ==
  (IsTyped(node) /\ Has(node, "format")) =>
     /\ KnownFormat(node) => Has(out, "format")
     /\ Has(out, "format") => out["format"] = node["format"]

\* C10, amended: every allow-listed annotation other than format whose value
\* is not None is on the output node with the same value (on a collapsed
\* nullable union the union node's value stands where the alternative gives
\* one too); a format hint is never altered, and it is kept when it is int32
\* or int64 on the single type integer or number, or date-time or enum on
\* the single type string.
C10_AnnotationsKeptFormatWhenKnown ==
  /\ Converted =>
        /\ PlainAnnotationsKept(schema, result)
        /\ FormatKeptWhenKnown(schema, result)
  /\ \A n \in InputNodes(schema), in_any_of \in BOOLEAN :
        LET out == FixedApproach(n, in_any_of)
        IN  PlainAnnotationsKept(n, out) /\ FormatKeptWhenKnown(n, out)

C10_Witness ==
  /\ Converted
  /\ schema = [type |-> Str("integer"), format |-> "int32"]
  /\ result = [type |-> Str("integer"), format |-> "int32"]

----------------------------------------------------------------------------
(* C11 *)

\* The keywords of the documents that have a camel-case and a snake-case
\* spelling
SpelledKeywords == {"anyOf", "any_of", "minItems", "min_items"}

\* C11: renaming a keyword to snake-case is purely a renaming: for every
\* keyword of the input node the sanitized node has the snake-case key and
\* not the camel-case one, the key carries the sanitized form of that
\* keyword's value, and so no keyword is lost because of the renaming.
C11_PureRenaming ==
  (pc # "start") =>
     \A k \in DOMAIN schema \cap SpelledKeywords :
        LET ks == _to_snake_case(k)
        IN  /\ Has(sanitized, ks)
            /\ (k # ks) => ~Has(sanitized, k)
            /\ sanitized[ks] = IF ks = "any_of"
                               THEN SanitizeAnyOf(schema[k], FALSE)
                               ELSE schema[k]

----------------------------------------------------------------------------
(* C12 *)

\* The type of the node is neither a string nor a list of strings.
HasMalformedType(node) == Has(node, "type") /\ "str" \in DOMAIN node["type"]

\* C12: when a node of the input has a type that is neither a string, a list
\* of strings nor absent, normalization fails and produces no tree: the
\* sanitizer never returns one for such a document.
C12_MalformedTypeRejected ==
  (\E n \in InputNodes(schema) : HasMalformedType(n)) =>
     /\ pc \in {"start", "rejected"}
     /\ sanitized = EmptyNode

----------------------------------------------------------------------------
(* C13 *)

\* C13: normalization never overflows the call stack: a call is running, has
\* returned, or has failed with MalformedSchemaError, also on a document
\* that reaches itself through properties, items or alternatives.
C13_NoStackOverflow ==
  outcome \in {"running", "returned", "MalformedSchemaError"}

----------------------------------------------------------------------------
(* C14 *)

\* C14: normalization does not mutate its input: no step of a call changes
\* an object of the input document, the rewriting of the type in place
\* included, which writes to the snake_case_schema of the call.
C14_InputNotMutated ==
  [][\A id \in InputIds : heap'[id] = heap[id]]_vars

C14_Witness ==
  /\ outcome = "returned"
  /\ heap[1] = [type |-> Str("null")]
  /\ heap[MaxObjects + 1] = [type |-> Lst(<<"object", "null">>)]

----------------------------------------------------------------------------
(* C15 *)

----------------------------------------------------------------------------
(* C16 *)

\* The annotations of the union node itself that reach the output
UnionOwnAnnotations(node) ==
  {k \in DOMAIN node \ {"anyOf", "type"} :
     _to_snake_case(k) \in supported_fields /\ ~IsNone(k, node[k])}

\* C16: when a nullable union node is collapsed onto its non-null
\* alternative X, a description or title that both define carries the union
\* node's value, one that only one of them defines carries that value, and
\* the annotations that only the union node or only X defines are all on the
\* output.
C16_UnionAnnotationsWin ==
  (Converted /\ IsNullablePair(schema)) =>
     LET x == FixedApproach(OtherAlternative(schema), TRUE)
         own == UnionOwnAnnotations(schema)
     IN  /\ \A k \in {"description", "title"} :
               /\ k \in own => Has(result, k) /\ result[k] = schema[k]
               /\ (k \notin own /\ Has(x, k)) =>
                     Has(result, k) /\ result[k] = x[k]
         /\ \A k \in own \ DOMAIN x :
               /\ Has(result, _to_snake_case(k))
               /\ result[_to_snake_case(k)] = schema[k]
         /\ \A k \in DOMAIN x \ ({_to_snake_case(o) : o \in own} \cup {"nullable"}) :
               Has(result, k) /\ result[k] = x[k]

C16_Witness ==
  /\ Converted
  /\ schema = [anyOf |-> << [type |-> Str("integer"), format |-> "int32",
                             description |-> "alt"],
                            NullNode >>,
               description |-> "Person's age", title |-> "Age"]
  /\ result = [type |-> Str("integer"), format |-> "int32", nullable |-> TRUE,
               description |-> "Person's age", title |-> "Age"]

----------------------------------------------------------------------------
(* C17 *)

IsRetrievalTool(tool) == tool = VertexAiRagRetrieval \/ tool = mock_rag_search

IsCustomFunctionTool(tool) == tool.kind = "function" /\ tool # mock_rag_search

\* C17: the retrieval tool create_rag_tool returned is the only tool of the
\* knowledge retrieval agent; the tools of the orchestrator are exactly
\* get_weather, calculate_wind_chill and one AgentTool that wraps the
\* knowledge agent; and no agent's tool list holds the retrieval tool
\* together with a custom function tool.
C17_RetrievalToolIsolated ==
  /\ Has(agents, "knowledge_retrieval_agent") =>
        /\ agents["knowledge_retrieval_agent"] = <<rag_tool>>
        /\ rag_tool = create_rag_tool(rag_corpus, vertex_raises)
  /\ Has(agents, "weather_and_knowledge_orchestrator") =>
        /\ Has(agents, "knowledge_retrieval_agent")
        /\ agents["weather_and_knowledge_orchestrator"] =
             <<get_weather, calculate_wind_chill,
               AgentTool("knowledge_retrieval_agent")>>
  /\ \A name \in DOMAIN agents :
        ~ \E i, j \in 1..Len(agents[name]) :
             /\ IsRetrievalTool(agents[name][i])
             /\ IsCustomFunctionTool(agents[name][j])

C17_Witness ==
  /\ main_pc = "done"
  /\ rag_tool = VertexAiRagRetrieval
  /\ agents["knowledge_retrieval_agent"] = <<VertexAiRagRetrieval>>
  /\ Len(agents["weather_and_knowledge_orchestrator"]) = 3

----------------------------------------------------------------------------
(* C18 *)

\* The alternatives the sanitizer reads from a node
InputAlternatives(node) ==
  IF Has(node, "any_of") THEN node["any_of"]
  ELSE IF Has(node, "anyOf") THEN node["anyOf"]
  ELSE <<>>

\* Every node of the document whose type is the single tag null has, in the
\* sanitized document out, the type null when kept holds of it and the type
\* [object, null] otherwise.  kept holds of the elements of an any_of list;
\* a node under properties or items takes it from its parent when inherit
\* holds, and is not kept otherwise.
RECURSIVE NullTypeRule(_, _, _, _)

NullTypeRule(node, out, kept, inherit) ==
  /\ (Has(node, "type") /\ node["type"] = Str("null")) =>
        /\ Has(out, "type")
        /\ out["type"] = IF kept THEN Str("null") ELSE Lst(<<"object", "null">>)
  /\ Has(node, "properties") =>
        \A key \in DOMAIN node["properties"] :
           NullTypeRule(node["properties"][key], out["properties"][key],
                        inherit /\ kept, inherit)
  /\ Has(node, "items") =>
        NullTypeRule(node["items"], out["items"], inherit /\ kept, inherit)
  /\ \A i \in 1..Len(InputAlternatives(node)) :
        NullTypeRule(InputAlternatives(node)[i], out["any_of"][i], TRUE,
                     inherit)

\* C18, as stated: a node whose type is the single tag null keeps the type
\* null when it is an element of an any_of list, and is rewritten to
\* [object, null] whenever it is not itself such an element, a property or
\* items node nested inside an any_of alternative included.
C18_NullKeptOnlyAsElement ==
  (pc # "start") => NullTypeRule(schema, sanitized, FALSE, FALSE)

\* C18, amended: a node whose type is the single tag null keeps the type
\* null when it is an element of an any_of list or lies below one through
\* properties or items, and is rewritten to [object, null] only when no node
\* on the path from the root to it is an element of an any_of list.
C18_NullKeptInsideAnyOf ==
  (pc # "start") => NullTypeRule(schema, sanitized, FALSE, TRUE)

C18_Witness ==
  /\ pc = "sanitized"
  /\ schema = [anyOf |-> << [type |-> Str("object"),
                             properties |-> [a |-> NullNode]],
                            NullNode >>]
  /\ sanitized = [any_of |-> << [type |-> Str("object"),
                                 properties |-> [a |-> NullNode]],
                                NullNode >>]

----------------------------------------------------------------------------
(* C19 *)

\* The type the claim gives a node whose type is the list tags: T alone, or
\* [T, null] when the list holds null, T being the first tag that is not
\* null and object when there is none.
FlattenedType(tags) ==
  LET others == SelectSeq(tags, LAMBDA t : t # "null")
      T == IF others = <<>> THEN "object" ELSE others[1]
  IN  IF \E i \in 1..Len(tags) : tags[i] = "null"
      THEN Lst(<<T, "null">>)
      ELSE Str(T)

\* C19: after the type sanitizer has run on a node whose type is a list, the
\* type is a single tag, or exactly [T, null] with null last, where T is the
\* first non-null tag of the list (object when it has none); it is the list
\* form exactly when the list holds null, and the non-null tags after the
\* first are gone.  Nothing else of the node changes.
C19_ListTypeFlattened ==
  /\ (pc # "start" /\ Has(schema, "type") /\ schema["type"].list) =>
        /\ Has(sanitized, "type")
        /\ sanitized["type"] = FlattenedType(schema["type"].tags)
  /\ \A n \in InputNodes(schema), in_any_of \in BOOLEAN :
        (Has(n, "type") /\ n["type"].list) =>
           _sanitize_schema_type_fixed(n, in_any_of) =
              Put(n, "type", FlattenedType(n["type"].tags))

C19_Witness ==
  /\ pc = "sanitized"
  /\ schema = [type |-> Lst(<<"null", "integer", "string">>)]
  /\ sanitized = [type |-> Lst(<<"integer", "null">>)]

----------------------------------------------------------------------------
(* C20 *)

\* The fields of a node that pass the filter of the PR #3280 sanitizer
Survivors(node, supported) ==
  {k \in DOMAIN node : k \in supported /\ ~IsNone(k, node[k])}

\* What the claim gives for a node: its surviving fields with their values,
\* and {type: object} when none survives
CopyOfSurvivors(node, supported) ==
  IF Survivors(node, supported) = {}
  THEN [type |-> Str("object")]
  ELSE [k \in Survivors(node, supported) |-> node[k]]

----------------------------------------------------------------------------
(* C21 *)

\* C21: the names of the fields under properties are data: the output
\* properties mapping has the key set of the input mapping, spelled the same
\* (not snake-cased, not filtered by the supported fields); the value under
\* each name is sanitized as a schema node whatever the name is, and no such
\* name becomes a keyword of the node that holds the mapping.
C21_PropertyNamesAreData ==
  /\ (pc # "start" /\ Has(schema, "properties")) =>
        /\ Has(sanitized, "properties")
        /\ DOMAIN sanitized["properties"] = DOMAIN schema["properties"]
  /\ \A n \in InputNodes(schema), in_any_of \in BOOLEAN :
        Has(n, "properties") =>
          LET out == _sanitize_schema_formats_for_gemini_fixed(n, in_any_of)
          IN  /\ Has(out, "properties")
              /\ DOMAIN out["properties"] = DOMAIN n["properties"]
              /\ \A key \in DOMAIN n["properties"] :
                    out["properties"][key] =
                      _sanitize_schema_formats_for_gemini_fixed(
                        n["properties"][key], in_any_of)
              /\ \A k \in DOMAIN out \ {"properties"} :
                    \E f \in DOMAIN n \ {"properties"} : _to_snake_case(f) = k

C21_Witness ==
  /\ pc = "sanitized"
  /\ schema = [type |-> Str("object"), properties |-> KeywordNamedProperties]
  /\ DOMAIN sanitized = {"type", "properties"}
  /\ DOMAIN sanitized["properties"] =
       {"type", "anyOf", "items", "format", "minItems", "examples"}
  /\ sanitized["properties"]["minItems"] =
       [type |-> Str("integer"), format |-> "int32"]
  /\ sanitized["properties"]["anyOf"] = [type |-> Lst(<<"object", "null">>)]

----------------------------------------------------------------------------
(* C22 *)

\* The pairs of type and format the claim names: int32 or int64 on the single
\* tag integer or number, date-time or enum on the single tag string
NamedFormatPair(node) ==
  /\ Has(node, "type")
  /\ Has(node, "format")
  /\ \/ node["type"] \in {Str("integer"), Str("number")}
        /\ node["format"] \in {"int32", "int64"}
     \/ node["type"] = Str("string") /\ node["format"] \in {"date-time", "enum"}

\* C22: a format is on the output node only when the input node has one of
\* the named pairs of type and format; in every other case (other formats,
\* other types, no type, a list-valued type) the output has no format key.
C22_FormatOnlyForNamedPairs ==
  /\ (pc # "start" /\ Has(sanitized, "format")) => NamedFormatPair(schema)
  /\ \A n \in InputNodes(schema), in_any_of \in BOOLEAN :
        Has(_sanitize_schema_formats_for_gemini_fixed(n, in_any_of), "format")
           => NamedFormatPair(n)

\* C22, amended: the format key is on the output node, with the value of the
\* input, exactly when the input node has one of the named pairs of type and
\* format or its format is the empty string; in every other case (other
\* formats, None, other types, no type, a list-valued type) the output has
\* no format key.
C22_FormatForNamedPairsOrEmpty ==
  /\ (pc # "start") =>
        /\ Has(sanitized, "format") <=>
             (Has(schema, "format")
              /\ (NamedFormatPair(schema) \/ schema["format"] = ""))
        /\ Has(sanitized, "format") => sanitized["format"] = schema["format"]
  /\ \A n \in InputNodes(schema), in_any_of \in BOOLEAN :
        LET out == _sanitize_schema_formats_for_gemini_fixed(n, in_any_of)
        IN  /\ Has(out, "format") <=>
                 (Has(n, "format")
                  /\ (NamedFormatPair(n) \/ n["format"] = ""))
            /\ Has(out, "format") => out["format"] = n["format"]

C22_Witness ==
  /\ pc = "sanitized"
  /\ schema = [type |-> Str("string"), format |-> ""]
  /\ sanitized = [type |-> Str("string"), format |-> ""]

----------------------------------------------------------------------------
(* C23 *)

\* RAG_CORPUS is unset or empty
CorpusUnset == rag_corpus = NoneV \/ rag_corpus = ""

\* C23: create_rag_tool never raises and always returns a usable tool: the
\* mock search function when RAG_CORPUS is unset or empty, the mock search
\* function when constructing the Vertex AI retrieval tool raises, and the
\* Vertex AI retrieval tool only when RAG_CORPUS is set and the construction
\* succeeds.
C23_RagToolAlwaysUsable ==
  /\ (main_pc # "start") =>
        /\ rag_tool \in {mock_rag_search, VertexAiRagRetrieval}
        /\ CorpusUnset => rag_tool = mock_rag_search
        /\ vertex_raises => rag_tool = mock_rag_search
        /\ rag_tool = VertexAiRagRetrieval => ~CorpusUnset /\ ~vertex_raises
  /\ \A corpus \in CorpusValues, raises \in BOOLEAN :
        LET tool == create_rag_tool(corpus, raises)
        IN  /\ tool \in {mock_rag_search, VertexAiRagRetrieval}
            /\ (corpus \in {NoneV, ""} \/ raises) => tool = mock_rag_search
            /\ tool = VertexAiRagRetrieval => corpus \notin {NoneV, ""} /\ ~raises

C23_Witness ==
  /\ main_pc = "rag_tool"
  /\ ~CorpusUnset
  /\ vertex_raises
  /\ rag_tool = mock_rag_search

----------------------------------------------------------------------------
(* C24 *)

\* The text of the first part of an event, "" when it has no content, no
\* part or no text
FirstPartText(event) ==
  IF "parts" \in DOMAIN event /\ event.parts # <<>> THEN event.parts[1] ELSE ""

RECURSIVE FinalTexts(_)

\* The first-part texts of the final responses of a stream, in the order of
\* arrival
FinalTexts(stream) ==
  IF stream = <<>> THEN <<>>
  ELSE LET event == stream[Len(stream)]
           before == FinalTexts(SubSeq(stream, 1, Len(stream) - 1))
       IN  IF event.is_final_response /\ FirstPartText(event) # ""
           THEN Append(before, FirstPartText(event))
           ELSE before

\* The calls of runner.run_async made so far are those for the first queries
\* of the list, in its order, each with the user and session id of the
\* sample.
RunsInListOrder ==
  /\ Len(runs) = query_index
  /\ Len(runs) <= NumQueries
  /\ \A i \in 1..Len(runs) :
        runs[i] = [user_id |-> USER_ID, session_id |-> SESSION_ID,
                   new_message |-> queries[i]]

\* C24: in main the session is created before any query is run; the five
\* queries are run one after another in the order of the list, the stream of
\* one query being consumed and its response printed before the next query
\* starts; all runs use the same user and session id; and for each query
\* what is collected and printed is the first-part text of the events that
\* are final responses (and of no other event), in the order of arrival.
C24_QueriesOneAfterAnother ==
  /\ [](/\ RunsInListOrder
        /\ (runs # <<>>) => <<APP_NAME, USER_ID, SESSION_ID>> \in sessions
        /\ (main_pc = "done") => Len(runs) = NumQueries
        /\ (main_pc = "run_async") => response_parts = FinalTexts(events)
        /\ (main_pc \in {"ready", "done"} /\ runs # <<>>) =>
              printed = FinalTexts(events))
  /\ [][(runs' # runs) =>
          /\ main_pc = "ready"
          /\ main_pc' = "run_async"
          /\ Len(runs') = Len(runs) + 1
          /\ (runs # <<>>) => printed = FinalTexts(events)
          /\ events' = <<>>]_vars

C24_Witness ==
  /\ main_pc = "done"
  /\ Len(runs) = NumQueries
  /\ runs[NumQueries].new_message =
       "Can you search for machine learning information?"
  /\ events = << [is_final_response |-> FALSE, parts |-> <<"a">>],
                 [is_final_response |-> TRUE, parts |-> <<"b", "a">>] >>
  /\ printed = <<"b">>

====
